---- MODULE Spec2Model ----
(***************************************************************************)
(* Checkpointed MongoDB -> Parquet -> GCS export (ETL/export_to_gcs.py).   *)
(*                                                                         *)
(* Durable state: the source collection (static), the chunk blobs, the     *)
(* checkpoint blob, the manifest blob and the local staging directory.     *)
(* Volatile state: the locals of one invocation of export_to_gcs().        *)
(* Every blocking call of the loop is one step; a process kill or a fatal  *)
(* error can fall between any two of them, and the program can be invoked  *)
(* again with the same RUN_ID.                                             *)
(*                                                                         *)
(* A sort-key value is a record [k |-> kind, v |-> n]: n orders the values *)
(* of one kind.  The documents of a collection are named by their position *)
(* in ascending sort order (ties keep their natural order).                *)
(***************************************************************************)
EXTENDS Integers, Sequences, FiniteSets, TLC

\* ---------------------------------------------------------------- bounds
MaxSourceDocs == 3
MaxKey == 3
MaxBatchSize == 2
MaxCap == 1
MaxInvocations == 2
RetryDeadline == 2    \* GCS_RETRY_DEADLINE, in ticks of the model's clock
MaxAttempts == 3      \* largest attempts argument of with_retries
MaxRows == 4          \* records of a batch the normalizer sees
MaxFiles == 2         \* files under the source prefix of the drift pass
MaxTableRows == 1     \* rows of a table given to cast_selected_to_string
MaxUris == 3          \* parquet files given to the BigQuery loader
MaxDigits == 7        \* digits of the largest chunk index that is named

VARIABLES
    source,           \* sort-key numbers of the documents, ascending
    kind,             \* the kind of value the sort field holds
    BATCH_SIZE,       \* env BATCH_SIZE
    MAX_DOCS,         \* env MAX_DOCS (0 = unlimited)
    blobs,            \* chunk index -> documents of part-<index>.parquet
    ckpt,             \* the _checkpoint.json blob
    manifest,         \* the manifest.json blob
    localFiles,       \* chunk indices with a staging file in LOCAL_TMP_DIR
    pc,               \* position of the invocation
    chunk_idx,        \* local chunk_idx
    exported_docs,    \* local exported_docs
    last_sort_value,  \* local last_sort_value
    batch,            \* local batch
    stop,             \* which break left the loop
    step,             \* the step taken last
    invocations,      \* invocations of export_to_gcs so far
    uploadLog,        \* chunk indices of the completed upload_file calls
    manifestWrites,   \* completed manifest uploads
    attempts,         \* attempts of the running upload_file call
    elapsed,          \* ticks since the first attempt of that call
    last_error,       \* the error of its last failed attempt
    logged,           \* the message the last step logged
    wr_pc,            \* with_retries: position
    wr_attempts,      \* with_retries: the attempts argument
    wr_a,             \* with_retries: the loop variable a
    wr_calls,         \* with_retries: calls of fn so far
    wr_err,           \* with_retries: the error of the last failed call
    wr_elapsed,       \* with_retries: ticks slept so far
    nz_pc,            \* normalizer: position
    column,           \* normalizer: the values of one column, by record
    dtype,            \* normalizer: the pandas dtype of that column
    normalized,       \* normalizer: the column normalize_df_for_parquet returns
    files,            \* drift pass: the schemas of the source files, in sorted path order
    args,             \* drift pass: the command line arguments
    d_pc,             \* drift detection: position
    d_i,              \* drift detection: sample files tried so far
    sample_n,         \* drift detection: sample_n
    schemas,          \* drift detection: schemas
    drifty,           \* drift detection: drifty
    suspicious,       \* drift detection: suspicious
    cast_cols,        \* drift detection: cast_cols
    store,            \* rewrite pass: path -> content of the objects in the bucket
    r_pc,             \* rewrite pass: position
    r_files,          \* rewrite pass: files, the sorted listing of the source prefix
    r_i,              \* rewrite pass: i
    written,          \* rewrite pass: written
    skipped,          \* rewrite pass: skipped
    failed,           \* rewrite pass: failed, as the list of its source paths
    reads,            \* rewrite pass: paths opened for reading by this invocation
    writes,           \* rewrite pass: paths opened for writing by this invocation
    table,            \* cast_selected_to_string: the argument table
    cols,             \* cast_selected_to_string: the argument cols
    c_pc,             \* cast_selected_to_string: position
    table2,           \* cast_selected_to_string: the table returned
    gcs_uris,         \* loader: gcs_uris
    batch_size,       \* loader: batch_size
    first_write,      \* loader: write_disposition, kept as first_write
    l_pc,             \* loader: position
    l_i,              \* loader: i
    jobs,             \* loader: the load jobs submitted, with their dispositions
    bq_table          \* loader: the URIs whose rows the destination table holds

config == <<source, kind, BATCH_SIZE, MAX_DOCS>>
durable == <<blobs, ckpt, manifest, localFiles>>
locals == <<pc, chunk_idx, exported_docs, last_sort_value, batch, stop>>
upload_call == <<attempts, elapsed, last_error>>
history == <<step, invocations, uploadLog, manifestWrites, logged>>
retrying == <<wr_pc, wr_attempts, wr_a, wr_calls, wr_err, wr_elapsed>>
normalizing == <<nz_pc, column, dtype, normalized>>
detecting == <<files, args, d_pc, d_i, sample_n, schemas, drifty, suspicious, cast_cols>>
rewriting == <<store, r_pc, r_files, r_i, written, skipped, failed, reads, writes>>
casting == <<table, cols, c_pc, table2>>
loading == <<gcs_uris, batch_size, first_write, l_pc, l_i, jobs, bq_table>>
later == <<detecting, rewriting, casting, loading>>
stages == <<retrying, normalizing, later>>
vars == <<config, durable, locals, upload_call, history, stages>>

\* ------------------------------------------------------------ sort values
Kinds == {"objectid", "datetime", "int", "float", "bool", "str"}

PyNone == [k |-> "none", v |-> 0]

\* bool has two values; the other kinds are abstracted to 1..MaxKey
KeyDomain(kd) == IF kd = "bool" THEN 1..2 ELSE 1..MaxKey

\* the sort-field value of document i
SortValue(i) == [k |-> kind, v |-> source[i]]

encode_sort_value(v) ==
    IF v.k = "none" THEN [type |-> "none", value |-> PyNone]
    ELSE IF v.k = "objectid" THEN [type |-> "objectid", value |-> [k |-> "str", v |-> v.v]]
    ELSE IF v.k = "datetime" THEN [type |-> "datetime", value |-> [k |-> "str", v |-> v.v]]
    ELSE IF v.k \in {"int", "float", "bool", "str"} THEN [type |-> v.k, value |-> v]
    ELSE [type |-> "str", value |-> [k |-> "str", v |-> v.v]]

\* decode_sort_value losing the stored value
decode_sort_value_none(payload) == PyNone

decode_sort_value(payload) ==
    IF payload.type = "none" THEN PyNone
    ELSE IF payload.type = "objectid" THEN [k |-> "objectid", v |-> payload.value.v]
    ELSE IF payload.type = "datetime" THEN payload.value
    ELSE payload.value

\* ------------------------------------------------------------ the source
\* BSON comparison: a query value is compared only with field values of its
\* own type bracket (int and float share the numeric bracket)
Bracket(kd) == IF kd \in {"int", "float"} THEN "number" ELSE kd

\* the query without its $gt filter
QueryMatchesAll(i, last) == TRUE

\* the filter with $gte in the place of $gt
QueryMatchesFromLast(i, last) ==
    \/ last.k = "none"
    \/ /\ Bracket(kind) = Bracket(last.k)
       /\ source[i] >= last.v

\* the filter {SORT_FIELD: {"$gt": last}}, or {} when last is None
QueryMatches(i, last) ==
    \/ last.k = "none"
    \/ /\ Bracket(kind) = Bracket(last.k)
       /\ source[i] > last.v

RECURSIVE Take(_, _, _)
Take(i, n, last) ==
    IF i > Len(source) \/ n = 0 THEN <<>>
    ELSE IF QueryMatches(i, last) THEN <<i>> \o Take(i + 1, n - 1, last)
    ELSE Take(i + 1, n, last)

\* the query limited to what the cap leaves room for
FindBatchUpToCap(last) ==
    Take(1, IF MAX_DOCS > 0 /\ MAX_DOCS - exported_docs < BATCH_SIZE
              THEN MAX_DOCS - exported_docs ELSE BATCH_SIZE, last)

\* col.find(query).sort(SORT_FIELD, 1).limit(BATCH_SIZE)
FindBatch(last) == Take(1, BATCH_SIZE, last)

\* ------------------------------------------------------------ blob store
NoCheckpoint ==
    [exists |-> FALSE, chunk_idx |-> 0, exported_docs |-> 0,
     last_sort_value |-> encode_sort_value(PyNone)]

NoManifest == [exists |-> FALSE, chunks |-> 0, exported_docs |-> 0, max_docs |-> 0]

\* the errors an upload attempt can end with: those _retry_predicate names,
\* and three that it does not
TransientErrors ==
    {"TooManyRequests", "ServiceUnavailable", "InternalServerError", "BadGateway",
     "GatewayTimeout", "DeadlineExceeded", "RequestTimeout"}

PermanentErrors == {"Forbidden", "NotFound", "BadRequest"}

UploadErrors == TransientErrors \cup PermanentErrors

\* a predicate that retries every error
_retry_predicate_any(exc) == TRUE

_retry_predicate(exc) == exc \in TransientErrors

\* blob_exists answering for another path
blob_exists_always(i) == TRUE

blob_exists_never(i) == FALSE

blob_exists(i) == i \in DOMAIN blobs

\* what load_checkpoint returns for the stored blob (defaults when absent)
load_checkpoint == ckpt

\* the cap test with > for >=
CapReachedStrict == MAX_DOCS > 0 /\ exported_docs > MAX_DOCS

CapReached == MAX_DOCS > 0 /\ exported_docs >= MAX_DOCS

\* ------------------------------------------------------------------ Init
\* the drift pass and the normalizer have not been called
StagesIdle ==
    /\ wr_pc = "idle"
    /\ wr_attempts = 0
    /\ wr_a = 0
    /\ wr_calls = 0
    /\ wr_err = {}
    /\ wr_elapsed = 0
    /\ nz_pc = "idle"
    /\ column = <<>>
    /\ dtype = "none"
    /\ normalized = <<>>

\* the arguments of normalize_parquet_run.py before any are given
NoArgs ==
    [src_prefix |-> "src/", dst_prefix |-> "dst/", sample_size |-> 0, resume |-> FALSE,
     log_every |-> 1, force_string_cols |-> {}, exclude_cols |-> {},
     include_all_suspicious |-> FALSE]

\* the drift-detection phase has not run
DetectIdle ==
    /\ d_pc = "idle"
    /\ d_i = 0
    /\ sample_n = 0
    /\ schemas = <<>>
    /\ drifty = <<>>
    /\ suspicious = {}
    /\ cast_cols = {}

\* the rewrite phase has not run
RewriteIdle ==
    /\ r_pc = "idle"
    /\ r_files = <<>>
    /\ r_i = 0
    /\ written = 0
    /\ skipped = 0
    /\ failed = <<>>
    /\ reads = {}
    /\ writes = {}

\* cast_selected_to_string has not been called
CastIdle ==
    /\ table = <<>>
    /\ cols = {}
    /\ c_pc = "idle"
    /\ table2 = <<>>

\* load_parquet_batches has not been called
LoadIdle ==
    /\ gcs_uris = <<>>
    /\ batch_size = 0
    /\ first_write = "WRITE_TRUNCATE"
    /\ l_pc = "idle"
    /\ l_i = 0
    /\ jobs = <<>>
    /\ bq_table = <<>>

\* nothing of the later stages exists yet
LaterIdle ==
    /\ files = <<>>
    /\ args = NoArgs
    /\ store = <<>>
    /\ DetectIdle
    /\ RewriteIdle
    /\ CastIdle
    /\ LoadIdle

Sorted(s) == \A i \in 1..(Len(s) - 1) : s[i] <= s[i + 1]

Sources(kd) ==
    {s \in UNION {[1..n -> KeyDomain(kd)] : n \in 0..MaxSourceDocs} : Sorted(s)}

\* the state before the first invocation of export_to_gcs.py
InitExport ==
    /\ kind \in Kinds
    /\ source \in Sources(kind)
    /\ BATCH_SIZE \in 1..MaxBatchSize
    /\ MAX_DOCS \in 0..MaxCap
    /\ blobs = <<>>
    /\ ckpt = NoCheckpoint
    /\ manifest = NoManifest
    /\ localFiles = {}
    /\ pc = "idle"
    /\ chunk_idx = 0
    /\ exported_docs = 0
    /\ last_sort_value = PyNone
    /\ batch = <<>>
    /\ stop = "none"
    /\ step = "none"
    /\ invocations = 0
    /\ uploadLog = <<>>
    /\ manifestWrites = 0
    /\ attempts = 0
    /\ elapsed = 0
    /\ last_error = "none"
    /\ logged = "none"
    /\ StagesIdle

Init == InitExport /\ LaterIdle

\* the export left aside: one configuration, never started
ExportAside ==
    /\ InitExport
    /\ kind = "objectid"
    /\ source = <<>>
    /\ BATCH_SIZE = 1
    /\ MAX_DOCS = 0

\* --------------------------------------------------------------- actions
Stopped == {"idle", "done", "killed", "failed"}

ResetLocals ==
    /\ chunk_idx' = 0
    /\ exported_docs' = 0
    /\ last_sort_value' = PyNone
    /\ batch' = <<>>
    /\ stop' = "none"
    /\ attempts' = 0
    /\ elapsed' = 0
    /\ last_error' = "none"

\* python export_to_gcs.py with the same RUN_ID and environment
Start ==
    /\ pc \in Stopped
    /\ invocations < MaxInvocations
    /\ pc' = "load"
    /\ ResetLocals
    /\ invocations' = invocations + 1
    /\ step' = "Start"
    /\ logged' = "Target"
    /\ UNCHANGED <<config, stages, durable, uploadLog, manifestWrites>>

\* an invocation that starts from scratch whatever the checkpoint blob holds
LoadCheckpointFresh ==
    /\ pc = "load"
    /\ chunk_idx' = 0
    /\ exported_docs' = 0
    /\ last_sort_value' = PyNone
    /\ pc' = "top"
    /\ step' = "LoadCheckpoint"
    /\ logged' = "Resume checkpoint"
    /\ UNCHANGED <<config, stages, upload_call, durable, batch, stop, invocations, uploadLog, manifestWrites>>

\* ckpt = load_checkpoint(...); the three locals are read from it
LoadCheckpoint ==
    /\ pc = "load"
    /\ chunk_idx' = load_checkpoint.chunk_idx
    /\ exported_docs' = load_checkpoint.exported_docs
    /\ last_sort_value' = decode_sort_value(load_checkpoint.last_sort_value)
    /\ pc' = "top"
    /\ step' = "LoadCheckpoint"
    /\ logged' = "Resume checkpoint"
    /\ UNCHANGED <<config, stages, upload_call, durable, batch, stop, invocations, uploadLog, manifestWrites>>

\* if MAX_DOCS and exported_docs >= MAX_DOCS: break
CapBreak ==
    /\ pc = "top"
    /\ CapReached
    /\ pc' = "manifest"
    /\ stop' = "cap"
    /\ step' = "CapBreak"
    /\ logged' = "Reached MAX_DOCS"
    /\ UNCHANGED <<config, stages, upload_call, durable, chunk_idx, exported_docs, last_sort_value, batch,
                   invocations, uploadLog, manifestWrites>>

\* batch = list(cursor); break when empty, else chunk_idx += 1
ReadBatch ==
    /\ pc = "top"
    /\ ~CapReached
    /\ LET b == FindBatch(last_sort_value) IN
         /\ batch' = b
         /\ IF b = <<>>
              THEN /\ pc' = "manifest"
                   /\ stop' = "empty"
                   /\ chunk_idx' = chunk_idx
              ELSE /\ pc' = "check"
                   /\ stop' = stop
                   /\ chunk_idx' = chunk_idx + 1
    /\ step' = "ReadBatch"
    /\ logged' = IF FindBatch(last_sort_value) = <<>> THEN "No more documents" ELSE "none"
    /\ UNCHANGED <<config, stages, upload_call, durable, exported_docs, last_sort_value,
                   invocations, uploadLog, manifestWrites>>

\* if blob_exists(gcs, GCS_BUCKET, blob_path)
CheckExisting ==
    /\ pc = "check"
    /\ pc' = IF blob_exists(chunk_idx) THEN "skip" ELSE "write"
    /\ step' = "CheckExisting"
    /\ logged' = IF blob_exists(chunk_idx) THEN "Skip existing GCS part" ELSE "none"
    /\ UNCHANGED <<config, stages, upload_call, durable, chunk_idx, exported_docs, last_sort_value, batch, stop,
                   invocations, uploadLog, manifestWrites>>

\* the skip branch without exported_docs += len(batch)
SkipAdvanceNoCount ==
    /\ pc = "skip"
    /\ last_sort_value' = SortValue(batch[Len(batch)])
    /\ exported_docs' = exported_docs
    /\ ckpt' = [exists |-> TRUE, chunk_idx |-> chunk_idx,
                exported_docs |-> exported_docs,
                last_sort_value |-> encode_sort_value(SortValue(batch[Len(batch)]))]
    /\ pc' = "top"
    /\ step' = "SkipAdvance"
    /\ logged' = "none"
    /\ UNCHANGED <<config, stages, upload_call, blobs, manifest, localFiles, chunk_idx, batch, stop,
                   invocations, uploadLog, manifestWrites>>

\* the skip branch: advance the locals from the batch, save_checkpoint, continue
SkipAdvance ==
    /\ pc = "skip"
    /\ last_sort_value' = SortValue(batch[Len(batch)])
    /\ exported_docs' = exported_docs + Len(batch)
    /\ ckpt' = [exists |-> TRUE, chunk_idx |-> chunk_idx,
                exported_docs |-> exported_docs + Len(batch),
                last_sort_value |-> encode_sort_value(SortValue(batch[Len(batch)]))]
    /\ pc' = "top"
    /\ step' = "SkipAdvance"
    /\ logged' = "none"
    /\ UNCHANGED <<config, stages, upload_call, blobs, manifest, localFiles, chunk_idx, batch, stop,
                   invocations, uploadLog, manifestWrites>>

\* rows_written = write_parquet_chunk(batch, local_path)
WriteLocal ==
    /\ pc = "write"
    /\ localFiles' = localFiles \cup {chunk_idx}
    /\ pc' = "upload"
    /\ step' = "WriteLocal"
    /\ logged' = "Uploading chunk"
    /\ UNCHANGED <<config, stages, upload_call, blobs, ckpt, manifest, chunk_idx, exported_docs, last_sort_value,
                   batch, stop, invocations, uploadLog, manifestWrites>>

\* the loop saving the checkpoint right after the upload, before any cleanup
UploadThenSave ==
    /\ pc = "upload"
    /\ blobs' = (chunk_idx :> batch) @@ blobs
    /\ uploadLog' = Append(uploadLog, chunk_idx)
    /\ attempts' = 0
    /\ elapsed' = 0
    /\ last_error' = "none"
    /\ pc' = "save"
    /\ step' = "Upload"
    /\ logged' = "none"
    /\ UNCHANGED <<config, stages, ckpt, manifest, localFiles, chunk_idx, exported_docs,
                   last_sort_value, batch, stop, invocations, manifestWrites>>

\* upload_file(gcs, GCS_BUCKET, blob_path, local_path), an attempt that
\* succeeds: the object appears when the resumable upload is finalized
Upload ==
    /\ pc = "upload"
    /\ blobs' = (chunk_idx :> batch) @@ blobs
    /\ uploadLog' = Append(uploadLog, chunk_idx)
    /\ attempts' = 0
    /\ elapsed' = 0
    /\ last_error' = "none"
    /\ pc' = "remove"
    /\ step' = "Upload"
    /\ logged' = "none"
    /\ UNCHANGED <<config, stages, ckpt, manifest, localFiles, chunk_idx, exported_docs,
                   last_sort_value, batch, stop, invocations, manifestWrites>>

\* the time a failed attempt and the sleep after it can take, in ticks
BackoffTicks == {1, 2}

\* the clock of one upload_file call stops mattering at the deadline
Clock(t) == IF t < RetryDeadline THEN t ELSE RetryDeadline

\* a retry policy with a fixed number of attempts
RetryAllowedByCount(e, dt) == _retry_predicate(e) /\ attempts + 1 < 2

\* Retry(predicate, deadline): the failure e of an attempt, dt ticks later,
\* is slept on and retried while the deadline, counted from the first
\* attempt, is not used up
RetryAllowed(e, dt) == _retry_predicate(e) /\ elapsed + dt < RetryDeadline

\* an attempt of upload_file fails and is retried
UploadRetry ==
    /\ pc = "upload"
    /\ \E e \in UploadErrors, dt \in BackoffTicks :
         /\ RetryAllowed(e, dt)
         /\ last_error' = e
         /\ elapsed' = elapsed + dt
    /\ attempts' = attempts + 1
    /\ step' = "UploadRetry"
    /\ logged' = "none"
    /\ UNCHANGED <<config, stages, durable, pc, chunk_idx, exported_docs, last_sort_value,
                   batch, stop, invocations, uploadLog, manifestWrites>>

\* an attempt of upload_file fails and the error leaves export_to_gcs
UploadRaise ==
    /\ pc = "upload"
    /\ \E e \in UploadErrors, dt \in BackoffTicks :
         /\ ~RetryAllowed(e, dt)
         /\ last_error' = e
         /\ elapsed' = IF _retry_predicate(e) THEN Clock(elapsed + dt) ELSE elapsed
    /\ attempts' = attempts + 1
    /\ pc' = "failed"
    /\ chunk_idx' = 0
    /\ exported_docs' = 0
    /\ last_sort_value' = PyNone
    /\ batch' = <<>>
    /\ stop' = "none"
    /\ step' = "UploadRaise"
    /\ logged' = "MongoDB connection closed."
    /\ UNCHANGED <<config, stages, durable, invocations, uploadLog, manifestWrites>>

\* os.remove(local_path) outside any try block: an OSError ends the invocation
RemoveLocalFatal ==
    /\ pc = "remove"
    /\ \E removed \in BOOLEAN :
         /\ localFiles' = IF removed THEN localFiles \ {chunk_idx} ELSE localFiles
         /\ pc' = IF removed THEN "save" ELSE "failed"
    /\ step' = "RemoveLocal"
    /\ logged' = "none"
    /\ UNCHANGED <<config, stages, upload_call, blobs, ckpt, manifest, chunk_idx, exported_docs, last_sort_value,
                   batch, stop, invocations, uploadLog, manifestWrites>>

\* try: os.remove(local_path) except OSError: pass
RemoveLocal ==
    /\ pc = "remove"
    /\ \E removed \in BOOLEAN :
         localFiles' = IF removed THEN localFiles \ {chunk_idx} ELSE localFiles
    /\ pc' = "save"
    /\ step' = "RemoveLocal"
    /\ logged' = "none"
    /\ UNCHANGED <<config, stages, upload_call, blobs, ckpt, manifest, chunk_idx, exported_docs, last_sort_value,
                   batch, stop, invocations, uploadLog, manifestWrites>>

\* the checkpoint step that leaves the cursor where it was
AdvanceKeepsCursor ==
    /\ pc = "save"
    /\ last_sort_value' = last_sort_value
    /\ exported_docs' = exported_docs + Len(batch)
    /\ ckpt' = [exists |-> TRUE, chunk_idx |-> chunk_idx,
                exported_docs |-> exported_docs + Len(batch),
                last_sort_value |-> encode_sort_value(last_sort_value)]
    /\ pc' = "top"
    /\ step' = "Advance"
    /\ logged' = IF chunk_idx % 10 = 0 THEN "Progress" ELSE "none"
    /\ UNCHANGED <<config, stages, upload_call, blobs, manifest, localFiles, chunk_idx, batch, stop,
                   invocations, uploadLog, manifestWrites>>

\* advance the locals from the batch and save_checkpoint
Advance ==
    /\ pc = "save"
    /\ last_sort_value' = SortValue(batch[Len(batch)])
    /\ exported_docs' = exported_docs + Len(batch)
    /\ ckpt' = [exists |-> TRUE, chunk_idx |-> chunk_idx,
                exported_docs |-> exported_docs + Len(batch),
                last_sort_value |-> encode_sort_value(SortValue(batch[Len(batch)]))]
    /\ pc' = "top"
    /\ step' = "Advance"
    /\ logged' = IF chunk_idx % 10 = 0 THEN "Progress" ELSE "none"
    /\ UNCHANGED <<config, stages, upload_call, blobs, manifest, localFiles, chunk_idx, batch, stop,
                   invocations, uploadLog, manifestWrites>>

\* the final manifest upload
WriteManifest ==
    /\ pc = "manifest"
    /\ manifest' = [exists |-> TRUE, chunks |-> chunk_idx,
                    exported_docs |-> exported_docs, max_docs |-> MAX_DOCS]
    /\ manifestWrites' = manifestWrites + 1
    /\ pc' = "done"
    /\ step' = "WriteManifest"
    /\ logged' = "DONE"
    /\ UNCHANGED <<config, stages, upload_call, blobs, ckpt, localFiles, chunk_idx, exported_docs,
                   last_sort_value, batch, stop, invocations, uploadLog>>

Running == {"load", "top", "check", "skip", "write", "upload", "remove", "save", "manifest"}

\* positions whose call can raise: the exception leaves through finally
Fallible == Running \ {"remove", "upload"}

\* the process is killed between two calls
Kill ==
    /\ pc \in Running
    /\ pc' = "killed"
    /\ ResetLocals
    /\ step' = "Kill"
    /\ logged' = "none"
    /\ UNCHANGED <<config, stages, durable, invocations, uploadLog, manifestWrites>>

\* the exception caught inside the loop, which then tries the call again
FailKeepsRunning ==
    /\ pc \in Fallible
    /\ pc = "top" => ~CapReached
    /\ step' = "Fail"
    /\ logged' = "none"
    /\ UNCHANGED <<config, stages, durable, locals, upload_call, invocations, uploadLog,
                   manifestWrites>>

\* the manifest upload moved into the finally block
FailWritesManifest ==
    /\ pc \in Fallible
    /\ pc = "top" => ~CapReached
    /\ manifest' = [exists |-> TRUE, chunks |-> chunk_idx,
                    exported_docs |-> exported_docs, max_docs |-> MAX_DOCS]
    /\ manifestWrites' = manifestWrites + 1
    /\ pc' = "failed"
    /\ ResetLocals
    /\ step' = "Fail"
    /\ logged' = IF pc = "load" THEN "none" ELSE "MongoDB connection closed."
    /\ UNCHANGED <<config, stages, blobs, ckpt, localFiles, invocations, uploadLog>>

\* the pending call raises; nothing catches it, finally closes the connection
Fail ==
    /\ pc \in Fallible
    /\ pc = "top" => ~CapReached
    /\ pc' = "failed"
    /\ ResetLocals
    /\ step' = "Fail"
    /\ logged' = IF pc = "load" THEN "none" ELSE "MongoDB connection closed."
    /\ UNCHANGED <<config, stages, durable, invocations, uploadLog, manifestWrites>>

Next ==
    \/ Start
    \/ LoadCheckpoint
    \/ CapBreak
    \/ ReadBatch
    \/ CheckExisting
    \/ SkipAdvance
    \/ WriteLocal
    \/ Upload
    \/ UploadRetry
    \/ UploadRaise
    \/ RemoveLocal
    \/ Advance
    \/ WriteManifest
    \/ Kill
    \/ Fail

Spec == Init /\ [][Next]_vars

\* ------------------------------------------------- the export left to run
\* the steps of an invocation that no failure interrupts
Progress ==
    \/ LoadCheckpoint
    \/ CapBreak
    \/ ReadBatch
    \/ CheckExisting
    \/ SkipAdvance
    \/ WriteLocal
    \/ Upload
    \/ RemoveLocal
    \/ Advance
    \/ WriteManifest

\* the sort field is _id or a date
InitLive == Init /\ kind \in {"objectid", "datetime"}

\* one thread of control: a running invocation takes its next step unless
\* it is killed or an error ends it
SpecLive == InitLive /\ [][Next]_vars /\ WF_vars(Progress)

\* an invocation with the same RUN_ID and another MAX_DOCS
Reconfigure ==
    /\ pc \in Stopped
    /\ invocations < MaxInvocations
    /\ MAX_DOCS' \in (0..MaxCap) \ {MAX_DOCS}
    /\ pc' = "load"
    /\ ResetLocals
    /\ invocations' = invocations + 1
    /\ step' = "Reconfigure"
    /\ logged' = "Target"
    /\ UNCHANGED <<source, kind, BATCH_SIZE, stages, durable, uploadLog, manifestWrites>>

NextReconf == Next \/ Reconfigure

SpecReconf == Init /\ [][NextReconf]_vars

\* the loop of one invocation that nothing interrupts, from the locals
\* (idx, exported, last) and the blobs bl, to its exit
RECURSIVE UninterruptedRun(_, _, _, _)
UninterruptedRun(idx, exported, last, bl) ==
    IF MAX_DOCS > 0 /\ exported >= MAX_DOCS
      THEN [blobs |-> bl, chunk_idx |-> idx, exported_docs |-> exported]
      ELSE LET b == FindBatch(last) IN
           IF b = <<>>
             THEN [blobs |-> bl, chunk_idx |-> idx, exported_docs |-> exported]
             ELSE UninterruptedRun(idx + 1, exported + Len(b), SortValue(b[Len(b)]),
                                   ((idx + 1) :> b) @@ bl)

FreshRun == UninterruptedRun(0, 0, PyNone, <<>>)

\* ============================================== the drift-normalization stage
\* an error message is modelled by the fragments it contains
RETRYABLE_SUBSTRINGS ==
    {"oauth2.googleapis.com", "NameResolutionError", "getaddrinfo failed",
     "TransportError", "ConnectionError", "Max retries exceeded", "Read timed out"}

NoError == {}

\* the messages of the errors fn can raise: one for each retryable fragment,
\* one holding two of them, and three holding none
FnErrors ==
    {{x} : x \in RETRYABLE_SUBSTRINGS}
        \cup {{"Max retries exceeded", "NameResolutionError"}}
        \cup {{"503 Service Unavailable"}, {"403 Forbidden"}, {"ArrowInvalid"}}

\* a classifier that finds every error retryable
is_retryable_error_any(e) == TRUE

\* any(x in str(e) for x in RETRYABLE_SUBSTRINGS)
is_retryable_error(e) == \E x \in RETRYABLE_SUBSTRINGS : x \in e

WrStopped == {"idle", "returned", "raised"}

\* read_schema or the rewrite loop calls with_retries(fn, attempts=n):
\* the loop starts at a = 1
WithRetries ==
    /\ wr_pc \in WrStopped
    /\ wr_attempts' \in 1..MaxAttempts
    /\ wr_a' = 1
    /\ wr_calls' = 0
    /\ wr_err' = NoError
    /\ wr_elapsed' = 0
    /\ wr_pc' = "call"
    /\ step' = "WithRetries"
    /\ logged' = "none"
    /\ UNCHANGED <<config, durable, locals, upload_call, invocations, uploadLog,
                   manifestWrites, later, normalizing>>

\* return fn()
FnReturns ==
    /\ wr_pc = "call"
    /\ wr_calls' = wr_calls + 1
    /\ wr_pc' = "returned"
    /\ step' = "FnReturns"
    /\ logged' = "none"
    /\ UNCHANGED <<config, durable, locals, upload_call, invocations, uploadLog,
                   manifestWrites, later, normalizing, wr_attempts, wr_a, wr_err, wr_elapsed>>

\* giving up when the time slept has used up a deadline, whatever a is
GivesUpAtDeadline(e) == ~is_retryable_error(e) \/ wr_elapsed >= RetryDeadline

\* if not is_retryable_error(e) or a == attempts: raise
GivesUp(e) == ~is_retryable_error(e) \/ wr_a = wr_attempts

\* fn() raises e and with_retries re-raises it
FnRaises ==
    /\ wr_pc = "call"
    /\ \E e \in FnErrors :
         /\ GivesUp(e)
         /\ wr_err' = e
    /\ wr_calls' = wr_calls + 1
    /\ wr_pc' = "raised"
    /\ step' = "FnRaises"
    /\ logged' = "none"
    /\ UNCHANGED <<config, durable, locals, upload_call, invocations, uploadLog,
                   manifestWrites, later, normalizing, wr_attempts, wr_a, wr_elapsed>>

\* fn() raises e, the attempt is announced and the sleep is computed
FnRetryable ==
    /\ wr_pc = "call"
    /\ \E e \in FnErrors :
         /\ ~GivesUp(e)
         /\ wr_err' = e
    /\ wr_calls' = wr_calls + 1
    /\ wr_pc' = "sleep"
    /\ step' = "FnRetryable"
    /\ logged' = "Retryable error"
    /\ UNCHANGED <<config, durable, locals, upload_call, invocations, uploadLog,
                   manifestWrites, later, normalizing, wr_attempts, wr_a, wr_elapsed>>

\* time.sleep(sleep), then the next value of a
Sleep ==
    /\ wr_pc = "sleep"
    /\ \E dt \in BackoffTicks : wr_elapsed' = wr_elapsed + dt
    /\ wr_a' = wr_a + 1
    /\ wr_pc' = "call"
    /\ step' = "Sleep"
    /\ logged' = "none"
    /\ UNCHANGED <<config, durable, locals, upload_call, invocations, uploadLog,
                   manifestWrites, later, normalizing, wr_attempts, wr_calls, wr_err>>

\* one export configuration, next to which the drift pass runs
InitRetry ==
    /\ Init
    /\ kind = "objectid"
    /\ source = <<1, 2>>
    /\ BATCH_SIZE = 1
    /\ MAX_DOCS = 1

NextRetry ==
    \/ Next
    \/ WithRetries
    \/ FnReturns
    \/ FnRaises
    \/ FnRetryable
    \/ Sleep

SpecRetry == InitRetry /\ [][NextRetry]_vars

\* ======================================================= the normalizer
\* the kinds of value one field can hold in a record of the batch: "nan" is
\* a float NaN or a field the record lacks; list0, list1_null, list1 and
\* list2 are the empty list, a list of one null or NaN, a list of one other
\* value and a longer list; other is any kind the function has no case for
ValueKinds ==
    {"none", "nan", "objectid", "datetime", "bytes_utf8", "bytes_bin", "dict",
     "list0", "list1_null", "list1", "list2", "tuple", "set", "str", "int", "float",
     "bool", "other"}

Nested == {"dict", "list0", "list1_null", "list1", "list2", "tuple", "set"}

\* the columns of a batch of n records: one value for each record
Columns(n) == [1..n -> ValueKinds]

KindsOf(col) == {col[i] : i \in 1..Len(col)}

\* pd.DataFrame(rows): the dtype pandas infers for a column
InferDtype(col) ==
    LET ks == KindsOf(col) IN
    IF ks = {"int"} THEN "int64"
    ELSE IF ks = {"bool"} THEN "bool"
    ELSE IF ks \subseteq {"int", "float", "nan", "none"} /\ ks # {"none"} THEN "float64"
    ELSE IF ks \subseteq {"datetime", "nan", "none"} /\ "datetime" \in ks THEN "datetime64"
    ELSE "object"

\* pd.DataFrame(rows): the values the column of that dtype holds
Coerce(col, dt) ==
    [i \in 1..Len(col) |->
        IF dt = "float64" THEN (IF col[i] = "int" THEN "float"
                                ELSE IF col[i] = "none" THEN "nan" ELSE col[i])
        ELSE IF dt = "datetime64" THEN (IF col[i] = "none" THEN "nan" ELSE col[i])
        ELSE col[i]]

\* the cells of a column: null, a text in one of the forms below, a value
\* left as it was, or the error that ended the call
NullCell == [t |-> "null", form |-> "none", of |-> "none"]

Text(form, x) == [t |-> "text", form |-> form, of |-> x]

Native(x) == [t |-> "native", form |-> "none", of |-> x]

Raised(x) == [t |-> "raised", form |-> "none", of |-> x]

\* if pd.isna(x): a list is tested element by element and the truth value of
\* the resulting array is taken, which is an error when it has two or more
\* elements
pd_isna(x) ==
    IF x \in {"none", "nan", "list1_null"} THEN "true"
    ELSE IF x = "list2" THEN "raise"
    ELSE "false"

\* the cases of _jsonify_scalar after the null tests
Render(x) ==
    IF x = "objectid" THEN Text("str", x)
    ELSE IF x = "datetime" THEN Text("iso_utc", x)
    ELSE IF x = "bytes_utf8" THEN Text("utf8", x)
    ELSE IF x = "bytes_bin" THEN Text("hex", x)
    ELSE IF x = "set" THEN Text("json_default_str", x)
    ELSE IF x \in Nested THEN Text("json", x)
    ELSE IF x = "str" THEN Text("same", x)
    ELSE IF x \in {"int", "float", "bool"} THEN Text("str", x)
    ELSE Text("json_default_str", x)

\* _jsonify_scalar with pd.isna outside the try block
_jsonify_scalar_unguarded(x) ==
    IF x = "none" THEN NullCell
    ELSE IF pd_isna(x) = "true" THEN NullCell
    ELSE IF pd_isna(x) = "raise" THEN Raised(x)
    ELSE Render(x)

_jsonify_scalar(x) ==
    IF x = "none" THEN NullCell
    ELSE IF pd_isna(x) = "true" THEN NullCell
    ELSE Render(x)

\* normalize_df_for_parquet mapping the columns of every dtype
normalize_df_for_parquet_all(col, dt) ==
    [i \in 1..Len(col) |-> _jsonify_scalar(col[i])]

\* if df[c].dtype == "object": df[c] = df[c].map(_jsonify_scalar)
normalize_df_for_parquet(col, dt) ==
    IF dt = "object"
      THEN [i \in 1..Len(col) |-> _jsonify_scalar(col[i])]
      ELSE [i \in 1..Len(col) |-> Native(col[i])]

\* write_parquet_chunk: df = pd.DataFrame(rows), seen at one of its columns
DataFrame ==
    /\ nz_pc = "idle"
    /\ \E n \in 1..MaxRows : \E col \in Columns(n) :
         /\ dtype' = InferDtype(col)
         /\ column' = Coerce(col, InferDtype(col))
    /\ normalized' = <<>>
    /\ nz_pc' = "frame"
    /\ step' = "DataFrame"
    /\ logged' = "none"
    /\ UNCHANGED <<config, durable, locals, upload_call, invocations, uploadLog,
                   manifestWrites, later, retrying>>

\* df = normalize_df_for_parquet(df); an error of a cell ends the call
NormalizeDf ==
    /\ nz_pc = "frame"
    /\ normalized' = normalize_df_for_parquet(column, dtype)
    /\ nz_pc' = IF \E i \in 1..Len(column) :
                       normalize_df_for_parquet(column, dtype)[i].t = "raised"
                  THEN "raised" ELSE "normalized"
    /\ step' = "NormalizeDf"
    /\ logged' = "none"
    /\ UNCHANGED <<config, durable, locals, upload_call, invocations, uploadLog,
                   manifestWrites, later, retrying, column, dtype>>

\* df.to_parquet(out_path); return len(df), or the error leaves
\* write_parquet_chunk
ToParquet ==
    /\ nz_pc \in {"normalized", "raised"}
    /\ nz_pc' = "idle"
    /\ column' = <<>>
    /\ dtype' = "none"
    /\ normalized' = <<>>
    /\ step' = "ToParquet"
    /\ logged' = "none"
    /\ UNCHANGED <<config, durable, locals, upload_call, invocations, uploadLog,
                   manifestWrites, later, retrying>>

\* the normalizer alone, next to an export that has not started
InitNormalize ==
    /\ Init
    /\ kind = "objectid"
    /\ source = <<>>
    /\ BATCH_SIZE = 1
    /\ MAX_DOCS = 0

NextNormalize ==
    \/ DataFrame
    \/ NormalizeDf
    \/ ToParquet

SpecNormalize == InitNormalize /\ [][NextNormalize]_vars

\* =============================================== the drift pass: detection
\* the column names and the Arrow type signatures of the model; a schema
\* gives each column its type, or "absent"
ColumnNames == {"user_id", "price"}

TypeKeys == {"int64", "string"}

Schemas == [ColumnNames -> TypeKeys \cup {"absent"}]

\* the fields of a schema
Fields(sch) == {c \in ColumnNames : sch[c] # "absent"}

SUSPICIOUS_PREFIXES == {"is_", "has_", "key_", "cat_", "flag_"}

SUSPICIOUS_CONTAINS == {"_id", "id_", "uuid", "guid", "code", "type", "search"}

SUSPICIOUS_SUFFIXES == {"_id", "_code", "_type", "_key"}

\* the lower-cased name, cut where the patterns can match
Fragments(col) == IF col = "user_id" THEN <<"user", "_id">> ELSE <<col>>

looks_suspicious(col) ==
    LET c == Fragments(col) IN
    \/ c[1] \in SUSPICIOUS_PREFIXES
    \/ c[Len(c)] \in SUSPICIOUS_SUFFIXES
    \/ \E i \in 1..Len(c) : c[i] \in SUSPICIOUS_CONTAINS

\* observed after the first n schemas: name -> the type keys seen, for the
\* names that were seen and are not excluded
RECURSIVE Observed(_, _, _)
Observed(schs, exclude_cols, n) ==
    IF n = 0 THEN <<>>
    ELSE LET before == Observed(schs, exclude_cols, n - 1)
             seen == Fields(schs[n]) \ exclude_cols
         IN  [c \in DOMAIN before \cup seen |->
                 (IF c \in DOMAIN before THEN before[c] ELSE {})
                     \cup (IF c \in seen THEN {schs[n][c]} ELSE {})]

\* detect_drifty_columns reporting every column it has seen
detect_drifty_columns_all(schs, exclude_cols) ==
    Observed(schs, exclude_cols, Len(schs))

detect_drifty_columns(schs, exclude_cols) ==
    LET observed == Observed(schs, exclude_cols, Len(schs)) IN
    [k \in {k \in DOMAIN observed : Cardinality(observed[k]) > 1} |-> observed[k]]

\* the suspicious set: names of the sample schemas, not excluded, that match
Suspicious(schs, exclude_cols) ==
    {c \in UNION {Fields(schs[i]) : i \in 1..Len(schs)} :
        c \notin exclude_cols /\ looks_suspicious(c)}

\* the cast set without its last line, cast_cols -= exclude_cols
CastColsKeepExcluded(dr, su) ==
    (DOMAIN dr \cup args.force_string_cols)
        \cup (IF args.include_all_suspicious THEN su ELSE {})

\* cast_cols = set(drifty.keys()) | force_cols; |= suspicious; -= exclude_cols
CastCols(dr, su) ==
    ((DOMAIN dr \cup args.force_string_cols)
        \cup (IF args.include_all_suspicious THEN su ELSE {})) \ args.exclude_cols

Min(a, b) == IF a < b THEN a ELSE b

DetectStopped == {"idle", "exit", "planned"}

\* main: list the files; leave when there are none, else take the sample
Main ==
    /\ d_pc \in DetectStopped
    /\ d_pc' = IF files = <<>> THEN "exit" ELSE "sampling"
    /\ sample_n' = IF files = <<>> THEN 0 ELSE Min(args.sample_size, Len(files))
    /\ d_i' = 0
    /\ schemas' = <<>>
    /\ drifty' = <<>>
    /\ suspicious' = {}
    /\ cast_cols' = {}
    /\ step' = "Main"
    /\ logged' = IF files = <<>> THEN "No parquet found" ELSE "Sampling"
    /\ UNCHANGED <<config, durable, locals, upload_call, invocations, uploadLog,
                   manifestWrites, retrying, normalizing, files, args, store, rewriting,
                   casting, loading>>

\* the sample drawn at random from the file list, not taken from its head
ReadSchemaAnyFile ==
    /\ d_pc = "sampling"
    /\ d_i < sample_n
    /\ d_i' = d_i + 1
    /\ \E ok \in BOOLEAN, j \in 1..Len(files) :
         /\ schemas' = IF ok THEN Append(schemas, files[j]) ELSE schemas
         /\ logged' = IF ok THEN "none" ELSE "WARNING: failed to read schema"
    /\ step' = "ReadSchema"
    /\ UNCHANGED <<config, durable, locals, upload_call, invocations, uploadLog,
                   manifestWrites, retrying, normalizing, files, args, store, rewriting,
                   casting, loading, d_pc, sample_n, drifty, suspicious, cast_cols>>

\* for p in sample_files: schemas.append(read_schema(fs, p)), or a warning
ReadSchema ==
    /\ d_pc = "sampling"
    /\ d_i < sample_n
    /\ d_i' = d_i + 1
    /\ \E ok \in BOOLEAN :
         /\ schemas' = IF ok THEN Append(schemas, files[d_i + 1]) ELSE schemas
         /\ logged' = IF ok THEN "none" ELSE "WARNING: failed to read schema"
    /\ step' = "ReadSchema"
    /\ UNCHANGED <<config, durable, locals, upload_call, invocations, uploadLog,
                   manifestWrites, retrying, normalizing, files, args, store, rewriting,
                   casting, loading, d_pc, sample_n, drifty, suspicious, cast_cols>>

\* drifty, suspicious and cast_cols are computed and the plan is printed
Plan ==
    /\ d_pc = "sampling"
    /\ d_i = sample_n
    /\ drifty' = detect_drifty_columns(schemas, args.exclude_cols)
    /\ suspicious' = Suspicious(schemas, args.exclude_cols)
    /\ cast_cols' = CastCols(detect_drifty_columns(schemas, args.exclude_cols),
                             Suspicious(schemas, args.exclude_cols))
    /\ d_pc' = "planned"
    /\ step' = "Plan"
    /\ logged' = "Plan"
    /\ UNCHANGED <<config, durable, locals, upload_call, invocations, uploadLog,
                   manifestWrites, retrying, normalizing, files, args, store, rewriting,
                   casting, loading, d_i, sample_n, schemas>>

\* a source prefix of up to MaxFiles files and one choice of arguments
InitDetect ==
    /\ ExportAside
    /\ \E n \in 0..MaxFiles : files \in [1..n -> Schemas]
    /\ \E size \in 0..MaxFiles, force \in SUBSET ColumnNames,
          exclude \in SUBSET ColumnNames, all \in BOOLEAN :
         args = [NoArgs EXCEPT !.sample_size = size, !.force_string_cols = force,
                               !.exclude_cols = exclude, !.include_all_suspicious = all]
    /\ store = <<>>
    /\ DetectIdle
    /\ RewriteIdle
    /\ CastIdle
    /\ LoadIdle

NextDetect ==
    \/ Main
    \/ ReadSchema
    \/ Plan

SpecDetect == InitDetect /\ [][NextDetect]_vars

\* ================================================= the drift pass: rewriting
\* An object of the bucket is named by its prefix and the rest of its path;
\* its content is the chunk as exported, the file a finished process_one
\* wrote, or what a write that failed partway left behind.
Prefixes == {"src/", "dst/"}

\* src_path of the file named k, and the dst_path that mirrors it
SrcPath(k) == <<args.src_prefix, k>>

DstPath(k) == <<args.dst_prefix, k>>

\* fs.exists(path)
Exists(path) == path \in DOMAIN store

\* the store with content c at path p
Put(p, c) == [q \in DOMAIN store \cup {p} |-> IF q = p THEN c ELSE store[q]]

\* list_parquet_paths: the names under the source prefix, sorted
list_parquet_paths ==
    LET names == {k \in 1..MaxFiles : Exists(SrcPath(k))} IN
    CHOOSE s \in [1..Cardinality(names) -> names] :
        \A i, j \in 1..Cardinality(names) : i < j => s[i] < s[j]

\* the file of this iteration
ThisFile == r_files[r_i + 1]

\* phase 2 starts: the counters are zero, the loop is at the first file
Rewrite ==
    /\ d_pc = "planned"
    /\ d_pc' = "rewriting"
    /\ r_files' = list_parquet_paths
    /\ r_i' = 0
    /\ written' = 0
    /\ skipped' = 0
    /\ failed' = <<>>
    /\ reads' = {}
    /\ writes' = {}
    /\ r_pc' = "file"
    /\ step' = "Rewrite"
    /\ logged' = "none"
    /\ UNCHANGED <<config, durable, locals, upload_call, invocations, uploadLog,
                   manifestWrites, retrying, normalizing, files, args, store, casting,
                   loading, d_i, sample_n, schemas, drifty, suspicious, cast_cols>>

\* the destination is taken for missing without being looked at
SkipTestNever == FALSE

\* if args.resume and fs.exists(dst_path)
SkipTest == args.resume /\ Exists(DstPath(ThisFile))

\* skipped += 1; continue
Skip ==
    /\ r_pc = "file"
    /\ r_i < Len(r_files)
    /\ SkipTest
    /\ skipped' = skipped + 1
    /\ r_i' = r_i + 1
    /\ step' = "Skip"
    /\ logged' = "none"
    /\ UNCHANGED <<config, durable, locals, upload_call, invocations, uploadLog,
                   manifestWrites, retrying, normalizing, detecting, casting, loading,
                   store, r_pc, r_files, written, failed, reads, writes>>

\* fs.exists(dst_path) raises: the file is recorded as failed
ExistsRaises ==
    /\ r_pc = "file"
    /\ r_i < Len(r_files)
    /\ args.resume
    /\ failed' = Append(failed, SrcPath(ThisFile))
    /\ r_i' = r_i + 1
    /\ step' = "ExistsRaises"
    /\ logged' = "FAILED"
    /\ UNCHANGED <<config, durable, locals, upload_call, invocations, uploadLog,
                   manifestWrites, retrying, normalizing, detecting, casting, loading,
                   store, r_pc, r_files, written, skipped, reads, writes>>

\* the file is not skipped: with_retries(process_one) starts at a = 1
Enter ==
    /\ r_pc = "file"
    /\ r_i < Len(r_files)
    /\ ~SkipTest
    /\ r_pc' = "process"
    /\ wr_attempts' = MaxAttempts
    /\ wr_a' = 1
    /\ step' = "Enter"
    /\ logged' = "none"
    /\ UNCHANGED <<config, durable, locals, upload_call, invocations, uploadLog,
                   manifestWrites, normalizing, detecting, casting, loading, store,
                   r_files, r_i, written, skipped, failed, reads, writes,
                   wr_pc, wr_calls, wr_err, wr_elapsed>>

\* the progress line of file i: i % args.log_every raises when log_every is 0
LogLineRaises == args.log_every = 0

\* process_one returns: the source was read, the destination holds the
\* rewritten table; written += 1; then the progress line
ProcessOne ==
    /\ r_pc = "process"
    /\ store[SrcPath(ThisFile)] # "partial"
    /\ reads' = reads \cup {SrcPath(ThisFile)}
    /\ writes' = writes \cup {DstPath(ThisFile)}
    /\ store' = Put(DstPath(ThisFile), "rewritten")
    /\ written' = written + 1
    /\ failed' = IF LogLineRaises THEN Append(failed, SrcPath(ThisFile)) ELSE failed
    /\ logged' = IF LogLineRaises THEN "FAILED" ELSE "written"
    /\ r_i' = r_i + 1
    /\ r_pc' = "file"
    /\ step' = "ProcessOne"
    /\ UNCHANGED <<config, durable, locals, upload_call, invocations, uploadLog,
                   manifestWrites, retrying, normalizing, detecting, casting, loading,
                   r_files, skipped>>

\* what a write that raised partway leaves at the destination: the upload
\* dropped, or the bytes sent so far made an object when the file was closed
LeftByFailedWrite == {store, Put(DstPath(ThisFile), "partial")}

\* process_one raises e while reading the source or while writing the
\* destination; with_retries raises it, or sleeps and calls again
ProcessOneRaises ==
    /\ r_pc = "process"
    /\ \E e \in FnErrors, stage \in {"read", "write"} :
         /\ stage = "write" => store[SrcPath(ThisFile)] # "partial"
         /\ reads' = reads \cup {SrcPath(ThisFile)}
         /\ writes' = IF stage = "write" THEN writes \cup {DstPath(ThisFile)} ELSE writes
         /\ store' \in (IF stage = "write" THEN LeftByFailedWrite ELSE {store})
         /\ IF GivesUp(e)
            THEN /\ failed' = Append(failed, SrcPath(ThisFile))
                 /\ r_i' = r_i + 1
                 /\ r_pc' = "file"
                 /\ wr_a' = wr_a
                 /\ logged' = "FAILED"
            ELSE /\ wr_a' = wr_a + 1
                 /\ logged' = "Retryable error"
                 /\ UNCHANGED <<failed, r_i, r_pc>>
    /\ step' = "ProcessOneRaises"
    /\ UNCHANGED <<config, durable, locals, upload_call, invocations, uploadLog,
                   manifestWrites, normalizing, detecting, casting, loading,
                   r_files, written, skipped,
                   wr_pc, wr_attempts, wr_calls, wr_err, wr_elapsed>>

\* the loop is over: the summary is printed and the program ends
Done ==
    /\ r_pc = "file"
    /\ r_i = Len(r_files)
    /\ r_pc' = "done"
    /\ d_pc' = "exit"
    /\ step' = "Done"
    /\ logged' = "Done"
    /\ UNCHANGED <<config, durable, locals, upload_call, invocations, uploadLog,
                   manifestWrites, retrying, normalizing, files, args, store, casting,
                   loading, d_i, sample_n, schemas, drifty, suspicious, cast_cols,
                   r_files, r_i, written, skipped, failed, reads, writes>>

\* the schema every exported chunk of this prefix has
ChunkSchema == [c \in ColumnNames |-> IF c = "user_id" THEN "int64" ELSE "string"]

\* a source prefix of up to MaxFiles exported chunks, an empty or equal
\* destination prefix, and one choice of --resume and --log_every
InitRewrite ==
    /\ ExportAside
    /\ \E n \in 0..MaxFiles :
         /\ files = [k \in 1..n |-> ChunkSchema]
         /\ store = [p \in {<<"src/", k>> : k \in 1..n} |-> "exported"]
    /\ \E dst \in Prefixes, resume \in BOOLEAN, every \in {0, 1} :
         args = [NoArgs EXCEPT !.dst_prefix = dst, !.resume = resume,
                               !.log_every = every, !.sample_size = 1]
    /\ DetectIdle
    /\ RewriteIdle
    /\ CastIdle
    /\ LoadIdle

NextRewrite ==
    \/ Main
    \/ ReadSchema
    \/ Plan
    \/ Rewrite
    \/ Skip
    \/ ExistsRaises
    \/ Enter
    \/ ProcessOne
    \/ ProcessOneRaises
    \/ Done

SpecRewrite == InitRewrite /\ [][NextRewrite]_vars

\* ================================================ cast_selected_to_string
\* A table is the sequence of its columns; a column has a name, a type and
\* one cell for each row; a cell is null or a value of the column's type.
TableColumns == ColumnNames \cup {"note"}

NullValue == [k |-> "null", v |-> 0]

Cells(type) == {NullValue, [k |-> type, v |-> 7]}

\* the columns of n rows
ColumnsOf(n) ==
    UNION {[name : {c}, type : {t}, rows : [1..n -> Cells(t)]] :
               c \in TableColumns, t \in TypeKeys}

\* the tables of n rows: up to one column of each name, in any order
Tables(n) ==
    UNION {{t \in [1..w -> ColumnsOf(n)] :
               \A i, j \in 1..w : i # j => t[i].name # t[j].name} :
           w \in 0..Cardinality(TableColumns)}

\* table.column_names
column_names(tbl) == {tbl[i].name : i \in 1..Len(tbl)}

\* table.schema.get_field_index(col)
get_field_index(tbl, col) == CHOOSE i \in 1..Len(tbl) : tbl[i].name = col

\* pc.cast(table[col], pa.string(), safe=False): null stays null, a value
\* becomes its text
pc_cast(arr) ==
    [name |-> arr.name, type |-> "string",
     rows |-> [i \in DOMAIN arr.rows |->
                  IF arr.rows[i] = NullValue THEN NullValue
                  ELSE [k |-> "string", v |-> arr.rows[i].v]]]

\* the column taken out and added again as the last one
set_column_last(tbl, idx, arr) ==
    [i \in 1..Len(tbl) |->
        IF i < idx THEN tbl[i] ELSE IF i < Len(tbl) THEN tbl[i + 1] ELSE arr]

\* table.set_column(idx, col, column)
set_column(tbl, idx, arr) == [tbl EXCEPT ![idx] = arr]

\* for col in cols: absent names are passed over, present ones are cast
RECURSIVE CastEach(_, _)
CastEach(tbl, remaining) ==
    IF remaining = {} THEN tbl
    ELSE LET col == CHOOSE c \in remaining : TRUE IN
         IF col \notin column_names(tbl)
         THEN CastEach(tbl, remaining \ {col})
         ELSE LET idx == get_field_index(tbl, col) IN
              CastEach(set_column(tbl, idx, pc_cast(tbl[idx])), remaining \ {col})

cast_selected_to_string(tbl, cs) == IF cs = {} THEN tbl ELSE CastEach(tbl, cs)

\* table2 = cast_selected_to_string(table, cast_cols)
CastSelectedToString ==
    /\ c_pc = "idle"
    /\ table2' = cast_selected_to_string(table, cols)
    /\ c_pc' = "returned"
    /\ step' = "CastSelectedToString"
    /\ logged' = "none"
    /\ UNCHANGED <<config, durable, locals, upload_call, invocations, uploadLog,
                   manifestWrites, retrying, normalizing, detecting, rewriting,
                   loading, table, cols>>

\* one table of up to MaxTableRows rows and one set of columns to cast
InitCast ==
    /\ ExportAside
    /\ files = <<>>
    /\ args = NoArgs
    /\ store = <<>>
    /\ DetectIdle
    /\ RewriteIdle
    /\ LoadIdle
    /\ \E n \in 0..MaxTableRows : table \in Tables(n)
    /\ cols \in SUBSET TableColumns
    /\ c_pc = "idle"
    /\ table2 = <<>>

NextCast == CastSelectedToString

SpecCast == InitCast /\ [][NextCast]_vars

\* ======================================================= the BigQuery loader
WriteDispositions == {"WRITE_APPEND", "WRITE_TRUNCATE", "WRITE_EMPTY"}

\* chunked(items, size): [items[i : i + size] for i in range(0, len(items), size)]
chunked(items, size) ==
    [b \in 1..((Len(items) + size - 1) \div size) |->
        SubSeq(items, (b - 1) * size + 1, Min(b * size, Len(items)))]

\* the write disposition of batch i
BatchDisposition(i) ==
    IF i > 1 /\ first_write = "WRITE_TRUNCATE" THEN "WRITE_APPEND" ELSE first_write

\* the table after a load job of this disposition; a WRITE_EMPTY job on
\* a table that holds rows fails
Loaded(disposition, uris) ==
    IF disposition = "WRITE_TRUNCATE" THEN uris ELSE bq_table \o uris

JobCanLoad(disposition) == disposition = "WRITE_EMPTY" => bq_table = <<>>

\* load_parquet_batches is called: the batches are cut
LoadParquetBatches ==
    /\ l_pc = "idle"
    /\ l_pc' = "submit"
    /\ l_i' = 0
    /\ jobs' = <<>>
    /\ step' = "LoadParquetBatches"
    /\ logged' = "Loading"
    /\ UNCHANGED <<config, durable, locals, upload_call, invocations, uploadLog,
                   manifestWrites, retrying, normalizing, detecting, rewriting,
                   casting, gcs_uris, batch_size, first_write, bq_table>>

\* bq.load_table_from_uri(uris_batch, ...) for the next batch
Submit ==
    /\ l_pc = "submit"
    /\ l_i < Len(chunked(gcs_uris, batch_size))
    /\ l_i' = l_i + 1
    /\ jobs' = Append(jobs, [uris |-> chunked(gcs_uris, batch_size)[l_i + 1],
                             write_disposition |-> BatchDisposition(l_i + 1),
                             state |-> "RUNNING"])
    /\ l_pc' = "result"
    /\ step' = "Submit"
    /\ logged' = "Job started"
    /\ UNCHANGED <<config, durable, locals, upload_call, invocations, uploadLog,
                   manifestWrites, retrying, normalizing, detecting, rewriting,
                   casting, gcs_uris, batch_size, first_write, bq_table>>

\* job.result() returns: the rows of the batch are in the table
JobFinished ==
    /\ l_pc = "result"
    /\ JobCanLoad(jobs[l_i].write_disposition)
    /\ bq_table' = Loaded(jobs[l_i].write_disposition, jobs[l_i].uris)
    /\ jobs' = [jobs EXCEPT ![l_i].state = "DONE"]
    /\ l_pc' = "submit"
    /\ step' = "JobFinished"
    /\ logged' = "Job finished"
    /\ UNCHANGED <<config, durable, locals, upload_call, invocations, uploadLog,
                   manifestWrites, retrying, normalizing, detecting, rewriting,
                   casting, gcs_uris, batch_size, first_write, l_i>>

\* job.result() raises: the job failed and load_parquet_batches is left
JobFailed ==
    /\ l_pc = "result"
    /\ jobs' = [jobs EXCEPT ![l_i].state = "FAILED"]
    /\ l_pc' = "raised"
    /\ step' = "JobFailed"
    /\ logged' = "none"
    /\ UNCHANGED <<config, durable, locals, upload_call, invocations, uploadLog,
                   manifestWrites, retrying, normalizing, detecting, rewriting,
                   casting, gcs_uris, batch_size, first_write, l_i, bq_table>>

\* every batch is loaded: bq.get_table and the last line
LoadDone ==
    /\ l_pc = "submit"
    /\ l_i = Len(chunked(gcs_uris, batch_size))
    /\ l_pc' = "done"
    /\ step' = "LoadDone"
    /\ logged' = "Done"
    /\ UNCHANGED <<config, durable, locals, upload_call, invocations, uploadLog,
                   manifestWrites, retrying, normalizing, detecting, rewriting,
                   casting, gcs_uris, batch_size, first_write, l_i, jobs, bq_table>>

\* up to MaxUris parquet files under the prefix, one --batch_size and one
\* --write; the destination table is missing or holds the rows of file 0
InitLoad ==
    /\ ExportAside
    /\ files = <<>>
    /\ args = NoArgs
    /\ store = <<>>
    /\ DetectIdle
    /\ RewriteIdle
    /\ CastIdle
    /\ \E n \in 1..MaxUris : gcs_uris = [u \in 1..n |-> u]
    /\ batch_size \in 1..MaxUris
    /\ first_write \in WriteDispositions
    /\ bq_table \in {<<>>, <<0>>}
    /\ l_pc = "idle"
    /\ l_i = 0
    /\ jobs = <<>>

NextLoad ==
    \/ LoadParquetBatches
    \/ Submit
    \/ JobFinished
    \/ JobFailed
    \/ LoadDone

SpecLoad == InitLoad /\ [][NextLoad]_vars

\* ====================================================== chunk file names
\* A name is the sequence of the character codes of what follows "part-":
\* the digits of the index and the "." of ".parquet".
PartWidth == 6

RECURSIVE Digits(_)
Digits(n) == IF n < 10 THEN <<n>> ELSE Append(Digits(n \div 10), n % 10)

\* format(n, "06d"): zeros on the left up to the width, never a digit cut
RECURSIVE ZeroPad(_, _)
ZeroPad(s, width) == IF Len(s) >= width THEN s ELSE ZeroPad(<<0>> \o s, width)

\* part_name = f"part-{chunk_idx:06d}.parquet"
part_name(idx) ==
    LET ds == ZeroPad(Digits(idx), PartWidth) IN
    [k \in 1..(Len(ds) + 1) |-> IF k <= Len(ds) THEN 48 + ds[k] ELSE 46]

\* the chunk index a name was made from
RECURSIVE IndexOf(_, _)
IndexOf(name, k) ==
    IF k = 0 THEN 0
    ELSE IF name[k] = 46 THEN IndexOf(name, k - 1)
    ELSE 10 * IndexOf(name, k - 1) + (name[k] - 48)

\* a < b for two Python strings
StrLess(a, b) ==
    \/ \E k \in 1..Min(Len(a), Len(b)) :
         /\ \A m \in 1..(k - 1) : a[m] = b[m]
         /\ a[k] < b[k]
    \/ /\ Len(a) < Len(b)
       /\ \A m \in 1..Len(a) : a[m] = b[m]

\* sorted(names)
sorted(names) ==
    CHOOSE s \in [1..Cardinality(names) -> names] :
        \A i, j \in 1..Cardinality(names) : i < j => StrLess(s[i], s[j])

RECURSIVE Pow10(_)
Pow10(e) == IF e = 0 THEN 1 ELSE 10 * Pow10(e - 1)

\* the chunk indices where the number of digits changes, up to MaxDigits digits
ChunkIndices ==
    {Pow10(e) : e \in 0..(MaxDigits - 1)} \cup {Pow10(e) - 1 : e \in 1..MaxDigits}

\* files = list_parquet_paths(fs, args.bucket, src_prefix) over the chunks
\* of an export
ListParquetPaths ==
    /\ r_pc = "idle"
    /\ r_files' = sorted({p[2] : p \in DOMAIN store})
    /\ r_pc' = "listed"
    /\ step' = "ListParquetPaths"
    /\ logged' = "Found"
    /\ UNCHANGED <<config, durable, locals, upload_call, invocations, uploadLog,
                   manifestWrites, retrying, normalizing, detecting, casting, loading,
                   store, r_i, written, skipped, failed, reads, writes>>

\* the source prefix holds two chunks of one export
InitNaming ==
    /\ ExportAside
    /\ files = <<ChunkSchema, ChunkSchema>>
    /\ args = NoArgs
    /\ \E i, j \in ChunkIndices :
         /\ i < j
         /\ store = [p \in {<<"src/", part_name(i)>>, <<"src/", part_name(j)>>} |->
                        "exported"]
    /\ DetectIdle
    /\ RewriteIdle
    /\ CastIdle
    /\ LoadIdle

NextNaming == ListParquetPaths

SpecNaming == InitNaming /\ [][NextNaming]_vars

\* ================================================================ claims
Dead == {"killed", "failed"}

\* C1: whatever kills and fatal errors came before, the run that completes
\* leaves the chunk blobs, chunk_idx and exported_docs of a run that was
\* never interrupted
C1_ResumeEqualsUninterrupted ==
    pc = "done" =>
        /\ blobs = FreshRun.blobs
        /\ ckpt.chunk_idx = FreshRun.chunk_idx
        /\ ckpt.exported_docs = FreshRun.exported_docs

\* C2: the stored checkpoint never names a chunk whose blob is missing:
\* part-1 .. part-k exist when the checkpoint holds chunk_idx = k
C2_CheckpointBackedByBlobs ==
    \A i \in 1..ckpt.chunk_idx : i \in DOMAIN blobs

C2_Witness ==
    /\ pc = "killed"
    /\ ckpt.chunk_idx >= 2

\* C3: when the blob of the next index already exists, the iteration takes
\* the skip branch: no staging file is written, nothing is uploaded, the
\* blobs stay as they are, and the checkpoint saved is the stored one
\* advanced by the batch just read
C3_SkipExisting ==
    [][/\ (pc = "check" /\ chunk_idx \in DOMAIN blobs) =>
             /\ pc' \in {"skip"} \cup Dead
             /\ UNCHANGED <<durable, uploadLog>>
       /\ pc = "skip" =>
             /\ UNCHANGED <<blobs, localFiles, uploadLog, manifest>>
             /\ \/ pc' \in Dead /\ ckpt' = ckpt
                \/ /\ pc' = "top"
                   /\ ckpt'.exists
                   /\ ckpt'.chunk_idx = ckpt.chunk_idx + 1
                   /\ ckpt'.exported_docs = ckpt.exported_docs + Len(batch)
                   /\ ckpt'.last_sort_value.type = kind
                   /\ ckpt'.last_sort_value.value.v = source[batch[Len(batch)]]]_vars

C3_Witness ==
    /\ step = "SkipAdvance"
    /\ ckpt.chunk_idx \in DOMAIN blobs
    /\ ckpt.exported_docs > 0

\* C4: over all invocations of a run id, a saved checkpoint never lowers
\* chunk_idx or exported_docs and never moves last_sort_value backwards
C4_CheckpointMonotonic ==
    [][/\ ckpt'.chunk_idx >= ckpt.chunk_idx
       /\ ckpt'.exported_docs >= ckpt.exported_docs
       /\ \/ ckpt.last_sort_value.type = "none"
          \/ /\ ckpt'.last_sort_value.type = ckpt.last_sort_value.type
             /\ ckpt'.last_sort_value.value.v >= ckpt.last_sort_value.value.v]_vars

C4_Witness ==
    /\ invocations >= 2
    /\ step \in {"Advance", "SkipAdvance"}
    /\ ckpt.chunk_idx >= 2

\* C5 as stated: once the manifest is written, a further invocation uploads
\* no chunk, saves no checkpoint and does not write the manifest again
C5_NoWriteAfterCompletion ==
    [][manifest.exists =>
          /\ blobs' = blobs
          /\ uploadLog' = uploadLog
          /\ ckpt' = ckpt
          /\ manifestWrites' = manifestWrites]_vars

\* C5 amended: once the manifest is written, a further invocation uploads no
\* chunk and saves no checkpoint; when it completes it writes the manifest
\* again, with the same chunks and exported_docs
C5_NoDataWriteAfterCompletion ==
    [][manifest.exists =>
          /\ blobs' = blobs
          /\ uploadLog' = uploadLog
          /\ ckpt' = ckpt
          /\ manifest'.exists
          /\ manifest'.chunks = manifest.chunks
          /\ manifest'.exported_docs = manifest.exported_docs]_vars

C5_Witness ==
    /\ manifestWrites >= 2
    /\ manifest.chunks >= 1

\* nothing is left for an invocation to export from the stored checkpoint
NothingToExport ==
    \/ MAX_DOCS > 0 /\ ckpt.exported_docs >= MAX_DOCS
    \/ FindBatch(decode_sort_value(ckpt.last_sort_value)) = <<>>

\* no invocation is inside an iteration, and none has work left
Finished ==
    /\ pc \notin {"check", "skip", "write", "upload", "remove", "save"}
    /\ NothingToExport

\* C6 as stated: a manifest under the run prefix means the run is finished,
\* also when an invocation that ended at the cap is followed by one with
\* another cap
C6_ManifestMeansFinished ==
    manifest.exists => Finished

\* C6 amended: a manifest written under the MAX_DOCS of the current
\* invocation means the run is finished, and an invocation that is running
\* or has died has written no manifest
C6_ManifestMeansFinishedSameCap ==
    /\ (manifest.exists /\ manifest.max_docs = MAX_DOCS) => Finished
    /\ pc \in Running \cup Dead => manifestWrites < invocations
    /\ manifest.exists <=> manifestWrites > 0

C6_Witness ==
    /\ manifest.exists
    /\ manifest.max_docs = MAX_DOCS
    /\ pc = "failed"
    /\ Len(source) > manifest.exported_docs

\* C7: at the top of the loop with the cap reached, the invocation queries,
\* uploads and saves nothing more, leaves the blobs alone, and the manifest
\* it writes repeats chunk_idx and exported_docs of the stored checkpoint
C7_DocumentCap ==
    [][/\ (pc = "top" /\ MAX_DOCS > 0 /\ exported_docs >= MAX_DOCS) =>
             /\ pc' \in {"manifest", "killed"}
             /\ step' \notin {"ReadBatch", "Upload", "Advance", "SkipAdvance"}
             /\ UNCHANGED <<durable, uploadLog>>
       /\ (pc = "manifest" /\ stop = "cap") =>
             /\ pc' \in {"done", "killed", "failed"}
             /\ step' \notin {"ReadBatch", "Upload", "Advance", "SkipAdvance"}
             /\ UNCHANGED <<blobs, ckpt, localFiles, uploadLog>>
             /\ pc' = "done" =>
                   /\ manifest'.exists
                   /\ manifest'.chunks = ckpt.chunk_idx
                   /\ manifest'.exported_docs = ckpt.exported_docs]_vars

C7_Witness ==
    /\ pc = "done"
    /\ stop = "cap"
    /\ manifest.exported_docs >= MAX_DOCS
    /\ Len(source) > manifest.exported_docs

Ceil(n, b) == (n + b - 1) \div b

\* C8: without a cap, an invocation that nothing interrupts turns N documents
\* into ceil(N/B) chunks, all of B rows but the last, which holds the rest;
\* the checkpoint ends at exported_docs = N and the manifest at that count
\* of chunks
C8_ChunkSizing ==
    (pc = "done" /\ invocations = 1 /\ MAX_DOCS = 0) =>
        LET N == Len(source)
            n == Ceil(N, BATCH_SIZE)
        IN  /\ DOMAIN blobs = 1..n
            /\ \A i \in 1..(n - 1) : Len(blobs[i]) = BATCH_SIZE
            /\ n > 0 => Len(blobs[n]) = N - BATCH_SIZE * (n - 1)
            /\ ckpt.exported_docs = N
            /\ manifest.chunks = n

\* C9: every sort key of a chunk is at most every sort key of a chunk with
\* a higher index
C9_ChunkOrdering ==
    \A i \in DOMAIN blobs : \A j \in DOMAIN blobs :
        i < j =>
            \A a \in 1..Len(blobs[i]) : \A b \in 1..Len(blobs[j]) :
                source[blobs[i][a]] <= source[blobs[j][b]]

C9_Witness ==
    /\ invocations >= 2
    /\ Cardinality(DOMAIN blobs) >= 2
    /\ Len(blobs[1]) = 2
    /\ pc = "done"

\* C10: the uploaded chunk indices are 1..k without a gap, and no index is
\* uploaded to completion twice, restarts included
C10_ChunkIndexDiscipline ==
    /\ DOMAIN blobs = 1..Cardinality(DOMAIN blobs)
    /\ \A a \in 1..Len(uploadLog) : \A b \in 1..Len(uploadLog) :
           uploadLog[a] = uploadLog[b] => a = b
    /\ \A i \in DOMAIN blobs : \E a \in 1..Len(uploadLog) : uploadLog[a] = i

C10_Witness ==
    /\ step = "CheckExisting"
    /\ pc = "skip"
    /\ Len(uploadLog) >= 2

\* the chunks, in index order, that hold document d
ChunksHolding(d) ==
    {<<i, a>> \in UNION {{<<i, a>> : a \in 1..Len(blobs[i])} : i \in DOMAIN blobs} :
        blobs[i][a] = d}

\* C11: the batches of one uncapped pass over a static collection hold every
\* document exactly once, and no batch holds more than BATCH_SIZE documents
C11_EveryRecordOnce ==
    (pc = "done" /\ invocations = 1 /\ MAX_DOCS = 0) =>
        /\ \A d \in 1..Len(source) : Cardinality(ChunksHolding(d)) = 1
        /\ \A i \in DOMAIN blobs : Len(blobs[i]) <= BATCH_SIZE

\* C12: an attempt of upload_file is retried only after one of the seven
\* listed errors; any other error ends the call at that attempt (the first
\* attempt when it is the first error), the invocation fails, and the
\* checkpoint and the blobs stay as they were, short of the pending chunk
C12_RetryClassification ==
    [][/\ step' = "UploadRetry" =>
              last_error' \in {"TooManyRequests", "ServiceUnavailable",
                               "InternalServerError", "BadGateway", "GatewayTimeout",
                               "DeadlineExceeded", "RequestTimeout"}
       /\ (/\ pc = "upload"
           /\ step' \in {"UploadRetry", "UploadRaise"}
           /\ last_error' \in {"Forbidden", "NotFound", "BadRequest"}) =>
              /\ step' = "UploadRaise"
              /\ pc' = "failed"
              /\ attempts' = attempts + 1
              /\ attempts = 0 => attempts' = 1
              /\ ckpt' = ckpt
              /\ blobs' = blobs
              /\ ckpt'.chunk_idx < chunk_idx
              /\ chunk_idx \notin DOMAIN blobs'
      ]_vars

C12_Witness ==
    /\ step = "UploadRaise"
    /\ last_error \in PermanentErrors
    /\ attempts = 1
    /\ ckpt.exists

Checkpointed ==
    {d \in 1..Len(source) :
        \E i \in DOMAIN blobs : i <= ckpt.chunk_idx /\ \E a \in 1..Len(blobs[i]) : blobs[i][a] = d}

\* C14: a source query that fails is not tried again: the invocation ends
\* there, with the checkpoint, the chunk blobs and the manifest as they
\* were; only a new invocation can follow, and it takes chunk_idx and
\* exported_docs from the stored checkpoint and reads no checkpointed document
C14_SourceQueryFailure ==
    [][/\ (pc = "top" /\ step' = "Fail") =>
              /\ pc' = "failed"
              /\ ckpt' = ckpt
              /\ blobs' = blobs
              /\ uploadLog' = uploadLog
              /\ manifest' = manifest
              /\ manifestWrites' = manifestWrites
              /\ invocations' = invocations
       /\ (step = "Fail" /\ pc = "failed") =>
              /\ step' = "Start"
              /\ invocations' = invocations + 1
       /\ step' = "LoadCheckpoint" =>
              /\ chunk_idx' = ckpt.chunk_idx
              /\ exported_docs' = ckpt.exported_docs
       /\ (step = "LoadCheckpoint" /\ step' = "ReadBatch") =>
              \A a \in 1..Len(batch') : batch'[a] \notin Checkpointed
      ]_vars

\* an invocation that resumed from a checkpoint has failed with every
\* uploaded chunk checkpointed, no staging file and documents left to read
C14_Witness ==
    /\ step = "Fail"
    /\ pc = "failed"
    /\ invocations = 2
    /\ ckpt.exists
    /\ ~manifest.exists
    /\ localFiles = {}
    /\ DOMAIN blobs = 1..ckpt.chunk_idx
    /\ Len(source) > ckpt.exported_docs

\* C15: the save_checkpoint that records an uploaded chunk comes right after
\* the attempt to remove its staging file, never before it; a kill between
\* the upload and the removal leaves the chunk's blob, its staging file and
\* a checkpoint that names the chunk before
C15_CleanupBeforeCheckpoint ==
    [][/\ step' = "Advance" =>
              /\ step = "RemoveLocal"
              /\ chunk_idx \in DOMAIN blobs
              /\ ckpt'.chunk_idx = chunk_idx
       /\ step' = "RemoveLocal" =>
              /\ step = "Upload"
              /\ ckpt'.chunk_idx = chunk_idx - 1
       /\ (step = "Upload" /\ step' = "Kill") =>
              /\ chunk_idx \in DOMAIN blobs'
              /\ chunk_idx \in localFiles'
              /\ ckpt' = ckpt
              /\ ckpt'.chunk_idx = chunk_idx - 1
      ]_vars

\* killed with the second chunk uploaded, its staging file in place and the
\* checkpoint at the first chunk
C15_Witness ==
    /\ step = "Kill"
    /\ 2 \in DOMAIN blobs
    /\ 2 \in localFiles
    /\ 1 \notin localFiles
    /\ ckpt.exists
    /\ ckpt.chunk_idx = 1

\* C16 as stated: every successful upload is followed by the removal of the
\* staging file; a removal that fails is logged and the loop goes on to save
\* the chunk's checkpoint
C16_RemovalFailureLogged ==
    [][/\ (step = "Upload" /\ step' # "Kill") => step' = "RemoveLocal"
       /\ step' = "RemoveLocal" =>
              /\ pc' = "save"
              /\ chunk_idx \in localFiles' => logged' # "none"
       /\ (step = "RemoveLocal" /\ step' = "Advance") =>
              /\ ckpt'.chunk_idx = chunk_idx
              /\ pc' = "top"
      ]_vars

\* C16: every successful upload is followed by one attempt to remove the
\* staging file; whether or not the file is gone nothing is logged, the loop
\* goes on to save the chunk's checkpoint and returns to its top
C16_RemovalFailureIgnored ==
    [][/\ (step = "Upload" /\ step' # "Kill") => step' = "RemoveLocal"
       /\ step' = "RemoveLocal" =>
              /\ pc' = "save"
              /\ logged' = "none"
              /\ localFiles' \in {localFiles, localFiles \ {chunk_idx}}
              /\ UNCHANGED <<blobs, ckpt, manifest, chunk_idx, exported_docs, batch>>
       /\ (step = "RemoveLocal" /\ step' = "Advance") =>
              /\ ckpt'.chunk_idx = chunk_idx
              /\ pc' = "top"
      ]_vars

\* the checkpoint of a chunk was saved although its staging file is still there
C16_Witness ==
    /\ step = "Advance"
    /\ pc = "top"
    /\ ckpt.chunk_idx = chunk_idx
    /\ chunk_idx \in localFiles
    /\ logged = "none"

\* the values the sort field can hold, and none
SortValues == {PyNone} \cup {[k |-> kind, v |-> n] : n \in KeyDomain(kind)}

\* C17: the value an invocation decodes from the checkpoint is of the kind
\* of the value v that was encoded into it and equal to v, and the query
\* filtered by it matches the documents the query filtered by v matches
C17_SortValueRoundTrip ==
    step = "LoadCheckpoint" =>
        \A v \in SortValues :
            encode_sort_value(v) = ckpt.last_sort_value =>
                /\ last_sort_value.k = v.k
                /\ last_sort_value = v
                /\ \A i \in 1..Len(source) :
                       QueryMatches(i, last_sort_value) <=> QueryMatches(i, v)

\* a cell that is a text or null
TextOrNull(cell) == cell.t \in {"text", "null"}

\* C18: for a column that holds, in different records, a boolean, a string,
\* a nested structure and a binary value, normalize_df_for_parquet ends
\* without an error and every cell of the column it returns is a text or null
C18_NormalizerSafety ==
    (/\ step = "NormalizeDf"
     /\ "bool" \in KindsOf(column)
     /\ "str" \in KindsOf(column)
     /\ KindsOf(column) \cap {"dict", "list0", "list1_null", "list1", "list2"} # {}
     /\ KindsOf(column) \cap {"bytes_utf8", "bytes_bin"} # {}) =>
        /\ nz_pc = "normalized"
        /\ dtype = "object"
        /\ Len(normalized) = Len(column)
        /\ \A i \in 1..Len(normalized) : TextOrNull(normalized[i])

C18_Witness ==
    /\ step = "NormalizeDf"
    /\ nz_pc = "normalized"
    /\ KindsOf(column) = {"bool", "str", "list2", "bytes_bin"}
    /\ \A i \in 1..Len(normalized) : normalized[i].t = "text"

C20_PerKindRendering ==
    (step = "NormalizeDf" /\ dtype = "object") =>
        /\ nz_pc = "normalized"
        /\ \A i \in 1..Len(column) :
               LET x == column[i]
                   y == normalized[i]
               IN  /\ x \in {"none", "nan"} => y = NullCell
                   /\ x = "objectid" => y = Text("str", x)
                   /\ x = "datetime" => y = Text("iso_utc", x)
                   /\ x = "bytes_utf8" => y = Text("utf8", x)
                   /\ x = "bytes_bin" => y = Text("hex", x)
                   /\ x \in {"dict", "list0", "list1_null", "list1", "list2", "tuple"} =>
                          y = Text("json", x)
                   /\ x = "str" => y = Text("same", x)
                   /\ x \in {"set", "int", "float", "bool", "other"} => y.t = "text"

\* the type keys column c has in the schemas that were read
TypeKeysSeen(c) == {schemas[i][c] : i \in 1..Len(schemas)} \ {"absent"}

\* C21: drifty holds exactly the columns that are not excluded and have more
\* than one type key over the schemas read, each with all its type keys; a
\* column of one type, missing from some schemas or not, and an excluded
\* column are not in it
C21_DriftDetection ==
    step = "Plan" =>
        /\ DOMAIN drifty =
               {c \in ColumnNames :
                   c \notin args.exclude_cols /\ Cardinality(TypeKeysSeen(c)) > 1}
        /\ \A c \in DOMAIN drifty : drifty[c] = TypeKeysSeen(c)
        /\ \A c \in args.exclude_cols : c \notin DOMAIN drifty

\* price drifts between two schemas; user_id has one type and is missing
\* from the first schema
C21_Witness ==
    /\ step = "Plan"
    /\ Len(schemas) = 2
    /\ args.exclude_cols = {}
    /\ drifty = [c \in {"price"} |-> {"int64", "string"}]
    /\ schemas[1]["user_id"] = "absent"
    /\ schemas[2]["user_id"] = "int64"

\* the schemas of the sample: the first min(sample_size, len(files)) files
SamplePrefix ==
    SubSeq(files, 1, IF args.sample_size < Len(files) THEN args.sample_size ELSE Len(files))

C23_TargetColumns ==
    step = "Plan" =>
        /\ cast_cols =
               ((DOMAIN drifty \cup args.force_string_cols)
                   \cup (IF args.include_all_suspicious THEN suspicious ELSE {}))
                       \ args.exclude_cols
        /\ \A c \in args.exclude_cols : c \notin cast_cols
        /\ \A c \in suspicious :
               /\ looks_suspicious(c)
               /\ \E i \in 1..Len(schemas) : schemas[i][c] # "absent"
        /\ ~args.include_all_suspicious =>
               cast_cols \subseteq DOMAIN drifty \cup args.force_string_cols

\* user_id is excluded although it is forced, of a suspicious name and of two
\* types in the sample; price is cast
C23_Witness ==
    /\ step = "Plan"
    /\ args.exclude_cols = {"user_id"}
    /\ args.force_string_cols = {"user_id", "price"}
    /\ args.include_all_suspicious
    /\ Cardinality(TypeKeysSeen("user_id")) = 2
    /\ cast_cols = {"price"}

\* what skipping an existing destination asks of one step of the loop: a
\* file whose destination exists when its turn comes is neither read nor
\* written and the bucket stays as it is; a file is entered only when its
\* destination is missing; a step that changes the bucket changes nothing
\* but the destination of a file that had none when it was entered
SkipsExisting ==
    /\ (r_pc = "file" /\ r_i < Len(r_files) /\ Exists(DstPath(ThisFile))) =>
           /\ reads' = reads
           /\ writes' = writes
           /\ store' = store
           /\ r_pc' # "process"
    /\ (r_pc = "process" /\ wr_a = 1) => ~Exists(DstPath(ThisFile))
    /\ store' # store =>
           /\ r_pc = "process"
           /\ \A p \in DOMAIN store : p # DstPath(ThisFile) =>
                  p \in DOMAIN store' /\ store'[p] = store[p]

\* C24 as stated: on any invocation of the rewrite pass a source file whose
\* destination exists is neither read nor written and the destination keeps
\* its content
C24_SkipExistingAlways == [][SkipsExisting]_vars

\* C24: on an invocation with --resume, a source file whose destination
\* exists is neither read nor written and the destination keeps its content;
\* only files with no destination are written
C24_SkipExistingOnResume == [][args.resume => SkipsExisting]_vars

\* a rerun with --resume over a destination that holds one file of two:
\* that file was skipped, the missing one was written
C24_Witness ==
    /\ r_pc = "done"
    /\ args.resume
    /\ args.dst_prefix = "dst/"
    /\ Len(r_files) = 2
    /\ skipped = 1
    /\ written = 1
    /\ failed = <<>>
    /\ reads = {<<"src/", 2>>}
    /\ writes = {<<"dst/", 2>>}
    /\ store[<<"dst/", 1>>] = "rewritten"
    /\ store[<<"dst/", 2>>] = "rewritten"

\* C25: a failure on one file is recorded and the loop goes on to the next
\* file; when the pass ends every source file has been counted in exactly
\* one of written, skipped and failed
C25_EveryFileCountedOnce ==
    /\ r_pc \in {"file", "process", "done"} =>
           written + skipped + Len(failed) = r_i
    /\ r_pc = "done" =>
           /\ r_i = Len(r_files)
           /\ written + skipped + Len(failed) = Len(r_files)

\* C26: a write that fails partway leaves no object at the destination path:
\* process_one raising leaves the bucket as it was, and no later invocation
\* with --resume skips a file over a truncated copy
C26_NoObjectAfterFailedWrite ==
    [][/\ (r_pc = "process" /\ step' = "ProcessOneRaises") => store' = store
       /\ (r_pc = "file" /\ step' = "Skip") => store[DstPath(ThisFile)] # "partial"]_vars

\* C28: the rewrite pass leaves every file under the source prefix as it
\* was exported: whatever src_prefix and dst_prefix are, no write goes to
\* the path of a source file
C28_SourceFilesUntouched ==
    /\ \A p \in writes : p[1] # args.src_prefix
    /\ \A k \in 1..Len(files) :
           Exists(SrcPath(k)) /\ store[SrcPath(k)] = "exported"

\* C27: the table returned has the columns of the argument, by name and in
\* order, with as many rows; a column named in cols has the string type and
\* its values as text; every other column is the one of the argument; names
\* of cols that the table does not have change nothing
C27_StructuralCopy ==
    c_pc = "returned" =>
        /\ Len(table2) = Len(table)
        /\ \A i \in 1..Len(table) :
               /\ table2[i].name = table[i].name
               /\ Len(table2[i].rows) = Len(table[i].rows)
               /\ table[i].name \in cols =>
                      /\ table2[i].type = "string"
                      /\ \A r \in 1..Len(table[i].rows) :
                             table2[i].rows[r] =
                                 IF table[i].rows[r].k = "null" THEN table[i].rows[r]
                                 ELSE [k |-> "string", v |-> table[i].rows[r].v]
               /\ table[i].name \notin cols => table2[i] = table[i]

\* of the two names in cols the table has user_id, an int64 column before a
\* column that is not in cols: user_id was cast where it stood
C27_Witness ==
    /\ c_pc = "returned"
    /\ cols = {"user_id", "note"}
    /\ Len(table) = 2
    /\ table[1] = [name |-> "user_id", type |-> "int64",
                   rows |-> <<[k |-> "int64", v |-> 7]>>]
    /\ table[2].name = "price"
    /\ table2[1] = [name |-> "user_id", type |-> "string",
                    rows |-> <<[k |-> "string", v |-> 7]>>]
    /\ table2[2] = table[2]

\* the URIs of the jobs submitted so far, in order
RECURSIVE Submitted(_)
Submitted(n) == IF n = 0 THEN <<>> ELSE Submitted(n - 1) \o jobs[n].uris

\* C29: the jobs carry consecutive batches of at most batch_size URIs that
\* add up to the URI list; a job is submitted only after the one before it
\* finished; every job after the first has the appending disposition
C29_LoaderBatching ==
    /\ \A j \in 1..Len(jobs) :
           /\ Len(jobs[j].uris) \in 1..batch_size
           /\ j < Len(jobs) => jobs[j].state = "DONE"
           /\ j > 1 => jobs[j].write_disposition = "WRITE_APPEND"
    /\ Submitted(Len(jobs)) = SubSeq(gcs_uris, 1, Len(Submitted(Len(jobs))))
    /\ l_pc = "done" => Submitted(Len(jobs)) = gcs_uris

\* C30: an invocation that no kill and no error ends reads an empty batch or
\* reaches the cap, leaves the loop and writes the manifest; every iteration
\* moves last_sort_value strictly up, and no batch holds a document of the
\* batch read before it in the same invocation
C30_ExportTerminates ==
    /\ (pc \in Running) ~> (\/ pc = "done" /\ manifest.exists /\ stop \in {"empty", "cap"}
                            \/ pc \in Dead)
    /\ [][/\ (pc \in {"save", "skip"} /\ pc' = "top") =>
                 /\ last_sort_value' = SortValue(batch[Len(batch)])
                 /\ \/ last_sort_value.k = "none"
                    \/ /\ last_sort_value'.k = last_sort_value.k
                       /\ last_sort_value'.v > last_sort_value.v
          /\ (pc = "top" /\ pc' = "check") =>
                 /\ batch' # <<>>
                 /\ \A i \in 1..Len(batch'), j \in 1..Len(batch) : batch'[i] > batch[j]]_vars

\* a first invocation that ran to its end without a failure: three batches
\* were read, the fourth was empty, the manifest is written
C30_Witness ==
    /\ pc = "done"
    /\ step = "WriteManifest"
    /\ invocations = 1
    /\ stop = "empty"
    /\ manifest.exists
    /\ chunk_idx = 3
    /\ uploadLog = <<1, 2, 3>>
    /\ exported_docs = Len(source)
    /\ last_sort_value = SortValue(Len(source))

\* C31: once a checkpoint is stored, every batch a query returns holds only
\* documents whose sort value lies strictly above the one of the checkpoint,
\* in the order of its own kind, and none of them is in a chunk the
\* checkpoint counts; so it is for the queries of an invocation that was
\* started again with the same RUN_ID, whatever the kind of the sort field
C31_NoReReadAfterResume ==
    (step = "ReadBatch" /\ ckpt.exists) =>
        \A n \in 1..Len(batch) :
            /\ source[batch[n]] > ckpt.last_sort_value.value.v
            /\ \A c \in 1..ckpt.chunk_idx :
                   c \in DOMAIN blobs =>
                       \A m \in 1..Len(blobs[c]) : blobs[c][m] # batch[n]

\* the second invocation loaded the checkpoint of chunk 1, which holds
\* document 1, and its first query returned document 2
C31_Witness ==
    /\ step = "ReadBatch"
    /\ invocations = 2
    /\ ckpt.exists
    /\ ckpt.chunk_idx = 1
    /\ ckpt.exported_docs = 1
    /\ blobs[1] = <<1>>
    /\ chunk_idx = 2
    /\ last_sort_value = decode_sort_value(ckpt.last_sort_value)
    /\ batch = <<2>>
    /\ source[2] > source[1]
    /\ Len(uploadLog) = 1

\* C32: of two chunks of a run the one with the lower index has the name
\* that sorts first, so the sorted listing of the drift pass holds the
\* chunks in the order of their indices
C32_NamesSortInExportOrder ==
    /\ \A p, q \in DOMAIN store :
           IndexOf(p[2], Len(p[2])) < IndexOf(q[2], Len(q[2])) => StrLess(p[2], q[2])
    /\ r_pc = "listed" =>
           \A a, b \in 1..Len(r_files) :
               a < b => IndexOf(r_files[a], Len(r_files[a]))
                            < IndexOf(r_files[b], Len(r_files[b]))

\* C33: _jsonify_scalar turns every nested structure, a list of one null
\* among them, into a text that holds its values, and gives null for null
\* and NaN only
C33_NestedValuesKept ==
    (step = "NormalizeDf" /\ dtype = "object") =>
        \A i \in 1..Len(column) :
            /\ column[i] \in Nested =>
                   /\ normalized[i].t = "text"
                   /\ normalized[i].form \in {"json", "json_default_str"}
                   /\ normalized[i].of = column[i]
            /\ normalized[i] = NullCell => column[i] \in {"none", "nan"}

\* C34: with_retries(fn, attempts=n) calls fn at most n times; after the
\* call that returns, or that raises out of with_retries, fn is not called
\* again; a call whose error holds no retryable fragment is followed by the
\* raise of that error; a retryable error is slept on while fewer than n
\* calls were made and raised at the n-th; after a sleep comes a call
C34_WithRetriesContract ==
    [][/\ wr_calls' <= wr_attempts'
       /\ wr_pc \in WrStopped => (wr_calls' = wr_calls \/ step' = "WithRetries")
       /\ (wr_pc = "call" /\ wr_calls' = wr_calls + 1) =>
              \/ wr_pc' = "returned" /\ wr_err' = wr_err
              \/ /\ wr_pc' = "raised"
                 /\ wr_err' # NoError
                 /\ \/ ~\E x \in RETRYABLE_SUBSTRINGS : x \in wr_err'
                    \/ wr_calls' = wr_attempts
              \/ /\ wr_pc' = "sleep"
                 /\ \E x \in RETRYABLE_SUBSTRINGS : x \in wr_err'
                 /\ wr_calls' < wr_attempts
       /\ wr_pc = "sleep" =>
              /\ wr_pc' \in {"sleep", "call"}
              /\ wr_calls' = wr_calls
              /\ wr_pc' = "call" => wr_a' = wr_calls + 1]_vars

\* three calls of three failed with a retryable error: the third is raised,
\* with no sleep after it
C34_Witness ==
    /\ step = "FnRaises"
    /\ wr_pc = "raised"
    /\ wr_attempts = 3
    /\ wr_calls = 3
    /\ wr_a = 3
    /\ wr_err = {"Read timed out"}

\* C35: the cap is tested between batches only: a chunk is the whole batch
\* of its query, BATCH_SIZE documents unless the query had no more to give;
\* with MAX_DOCS = M > 0 the count of exported documents stays below
\* M + BATCH_SIZE, in the locals, the checkpoint and the manifest, and the
\* run stops for the cap only at a count of M or more
C35_CapGranularity ==
    /\ step = "Upload" =>
           /\ blobs[chunk_idx] = batch
           /\ Len(batch) \in 1..BATCH_SIZE
           /\ Len(batch) < BATCH_SIZE =>
                  \A i \in 1..Len(source) :
                      (last_sort_value.k = "none" \/ source[i] > last_sort_value.v) =>
                          \E n \in 1..Len(batch) : batch[n] = i
    /\ MAX_DOCS > 0 =>
           /\ exported_docs < MAX_DOCS + BATCH_SIZE
           /\ ckpt.exported_docs < MAX_DOCS + BATCH_SIZE
           /\ manifest.exists => manifest.exported_docs < MAX_DOCS + BATCH_SIZE
           /\ stop = "cap" => exported_docs >= MAX_DOCS

\* a cap of 1 with batches of 2: the run stopped for the cap with both
\* documents of the first batch exported, one more than the cap
C35_Witness ==
    /\ pc = "done"
    /\ stop = "cap"
    /\ MAX_DOCS = 1
    /\ BATCH_SIZE = 2
    /\ invocations = 1
    /\ blobs[1] = <<1, 2>>
    /\ manifest.exported_docs = 2
    /\ ckpt.exported_docs = 2
    /\ Len(source) = 3

====
